---- MODULE Spec2Model ----
(***************************************************************************)
(* A model of Fig (src/src/lib.rs): declaring custom `cfg` predicates from *)
(* a build script and assigning them checked values.                       *)
(*                                                                         *)
(* Rust strings are TLA+ strings, concatenated with \o and measured with   *)
(* Len (the strings used are ASCII, so bytes and characters coincide).     *)
(* The standard output of the build script is the sequence `out` of the    *)
(* lines printed so far (println! appends one line).  A panic ends the     *)
(* build script: `panicked` is set and no further call is made.            *)
(***************************************************************************)
EXTENDS Integers, Sequences, FiniteSets, TLC

VARIABLES cfg, handle, out, panicked, decl, last, ncalls, fmt

vars == <<cfg, handle, out, panicked, decl, last, ncalls, fmt>>

(***************************************************************************)
(* Bounds of the model, and the small sets the inputs are drawn from.      *)
(***************************************************************************)
MaxVals == 2
MaxCalls == 2
MaxFmtVals == 3

Strs == {"", "a", "b", "ab"}

ListsUpTo(n) == UNION {[1..m -> Strs] : m \in 0..n}

Keys == {"k", "fg"}

(***************************************************************************)
(* Option<&str> and Result<String, VarError>.                              *)
(***************************************************************************)
None == [some |-> FALSE]
Some(v) == [some |-> TRUE, v |-> v]
OptStrs == {None} \cup {Some(s) : s \in Strs}

Ok(v) == [ok |-> TRUE, v |-> v]
Err(e) == [ok |-> FALSE, err |-> e]
VarResults == {Ok(s) : s \in Strs} \cup {Err("NotPresent"), Err("NotUnicode")}

Range(s) == {s[i] : i \in 1..Len(s)}

(***************************************************************************)
(* list_to_value_str                                                       *)
(***************************************************************************)
SEPARATOR == ", "

saturating_sub(a, b) == IF a >= b THEN a - b ELSE 0

RECURSIVE SumLen(_)
SumLen(values) ==
    IF values = <<>> THEN 0 ELSE Len(Head(values)) + SumLen(Tail(values))

final_index(values) == saturating_sub(Len(values), 1)

initial_capcity(values) ==
    SumLen(values) + (Len(SEPARATOR) * final_index(values))

\* The body of the `for` loop, run from the 0-based `index` to the end.
RECURSIVE value_loop(_, _, _)
value_loop(values, index, value_string) ==
    IF index >= Len(values) THEN value_string
    ELSE LET value == values[index + 1]
             quoted == value_string \o "\"" \o value \o "\""
         IN  value_loop(values, index + 1,
                        IF index # final_index(values)
                        THEN quoted \o SEPARATOR
                        ELSE quoted)

list_to_value_str_trailing(values) ==
    LET RECURSIVE all(_, _)
        all(index, value_string) ==
            IF index >= Len(values) THEN value_string
            ELSE all(index + 1,
                     value_string \o "\"" \o values[index + 1] \o "\"" \o SEPARATOR)
    IN  all(0, "")

list_to_value_str(values) == value_loop(values, 0, "")

(***************************************************************************)
(* Cfg and its mode constructors.  A constructor returns the handle, the   *)
(* output after the call and whether the call panicked.                    *)
(***************************************************************************)
Cfg_new(key) == [key |-> key]

NoHandle == [rule |-> "absent"]

Impl(rule, key, values) == [rule |-> rule, key |-> key, values |-> values]

Panic(o) == [panicked |-> TRUE, out |-> o, handle |-> NoHandle]

Return(h, o) == [panicked |-> FALSE, out |-> o, handle |-> h]

assigned_none(self, o) ==
    Return(Impl("none", self.key, <<>>),
           Append(o, "cargo::rustc-check-cfg=cfg(" \o self.key \o ", values(none()))"))

assigned_any(self, o) ==
    Return(Impl("any", self.key, <<>>),
           Append(o, "cargo::rustc-check-cfg=cfg(" \o self.key \o ", values(any()))"))

\* assigned_one_of without its assertion.
assigned_one_of_unchecked(self, values, o) ==
    Return(Impl("one_of", self.key, values),
           Append(o, "cargo::rustc-check-cfg=cfg(" \o self.key \o ", values("
                     \o list_to_value_str(values) \o "))"))

assigned_one_of(self, values, o) ==
    IF values = <<>> THEN Panic(o)
    ELSE Return(Impl("one_of", self.key, values),
                Append(o, "cargo::rustc-check-cfg=cfg(" \o self.key \o ", values("
                          \o list_to_value_str(values) \o "))"))

\* assigned_none_or_one_of declaring the value space of assigned_one_of.
assigned_none_or_one_of_no_none(self, values, o) ==
    IF values = <<>> THEN Panic(o)
    ELSE Return(Impl("none_or_one_of", self.key, values),
                Append(o, "cargo::rustc-check-cfg=cfg(" \o self.key \o ", values("
                          \o list_to_value_str(values) \o "))"))

assigned_none_or_one_of(self, values, o) ==
    IF values = <<>> THEN Panic(o)
    ELSE Return(Impl("none_or_one_of", self.key, values),
                Append(o, "cargo::rustc-check-cfg=cfg(" \o self.key \o ", values(none(), "
                          \o list_to_value_str(values) \o "))"))

(***************************************************************************)
(* CheckedCfg                                                              *)
(***************************************************************************)
key(h) == h.key

\* is_assignable with is_none_or in place of is_some_and for one-of.
is_assignable_none_or(h, value) ==
    CASE h.rule = "none" -> ~value.some
      [] h.rule = "any" -> value.some
      [] h.rule = "one_of" -> ~value.some \/ value.v \in Range(h.values)
      [] h.rule = "none_or_one_of" -> ~value.some \/ value.v \in Range(h.values)

is_assignable(h, value) ==
    CASE h.rule = "none" -> ~value.some
      [] h.rule = "any" -> value.some
      [] h.rule = "one_of" -> value.some /\ value.v \in Range(h.values)
      [] h.rule = "none_or_one_of" -> ~value.some \/ value.v \in Range(h.values)

\* The outcome of a call on a handle: the output after it, whether it
\* panicked, and how many times the default producer was invoked.
Outcome(p, o, n) == [panicked |-> p, out |-> o, invoked |-> n]

\* set printing before it asserts.
set_print_first(h, value, o) ==
    LET line == IF value.some
                THEN "cargo::rustc-cfg=" \o key(h) \o "=\"" \o value.v \o "\""
                ELSE "cargo::rustc-cfg=" \o key(h)
    IN  Outcome(~is_assignable(h, value), Append(o, line), 0)

\* set refusing a second assignment.
set_single_use(h, value, o) ==
    IF ~is_assignable(h, value) \/ Len(o) > 1 THEN Outcome(TRUE, o, 0)
    ELSE IF value.some
         THEN Outcome(FALSE, Append(o, "cargo::rustc-cfg=" \o key(h) \o "=\"" \o value.v \o "\""), 0)
         ELSE Outcome(FALSE, Append(o, "cargo::rustc-cfg=" \o key(h)), 0)

set(h, value, o) ==
    IF ~is_assignable(h, value) THEN Outcome(TRUE, o, 0)
    ELSE IF value.some
         THEN Outcome(FALSE, Append(o, "cargo::rustc-cfg=" \o key(h) \o "=\"" \o value.v \o "\""), 0)
         ELSE Outcome(FALSE, Append(o, "cargo::rustc-cfg=" \o key(h)), 0)

\* set_from_env without the is_empty guard.
set_from_env_keep_empty(h, r, o) ==
    IF r.ok THEN set(h, Some(r.v), o)
    ELSE IF r.err = "NotPresent" THEN set(h, None, o)
    ELSE Outcome(TRUE, o, 0)

\* set_from_env taking every read error for an absent variable.
set_from_env_any_error(h, r, o) ==
    IF r.ok /\ r.v # "" THEN set(h, Some(r.v), o)
    ELSE set(h, None, o)

set_from_env(h, r, o) ==
    IF r.ok /\ r.v # "" THEN set(h, Some(r.v), o)
    ELSE IF r.ok \/ r.err = "NotPresent" THEN set(h, None, o)
    ELSE Outcome(TRUE, o, 0)

\* set_from_env_or_else evaluating the default before the match.
set_from_env_or_else_eager(h, r, d, o) ==
    IF r.ok /\ r.v # "" THEN [set(h, Some(r.v), o) EXCEPT !.invoked = 1]
    ELSE IF r.ok \/ r.err = "NotPresent"
         THEN [set(h, d, o) EXCEPT !.invoked = 1]
    ELSE Outcome(TRUE, o, 1)

\* `d` is what the producer `default` returns when it is invoked.
set_from_env_or_else(h, r, d, o) ==
    IF r.ok /\ r.v # "" THEN set(h, Some(r.v), o)
    ELSE IF r.ok \/ r.err = "NotPresent"
         THEN [set(h, d, o) EXCEPT !.invoked = 1]
    ELSE Outcome(TRUE, o, 0)

(***************************************************************************)
(* The build script: one declaration, one mode constructor, then calls on  *)
(* the handle.  `decl` records the constructor call and `last` the latest  *)
(* call on the handle: its arguments, what std::env::var returned, and the *)
(* producer's result when it was invoked.  `ncalls` counts the calls made  *)
(* on the handle.                                                          *)
(***************************************************************************)
NoCall == [op |-> "none"]

NotFormatted == [done |-> FALSE]

Init ==
    /\ cfg \in {Cfg_new(k) : k \in Keys}
    /\ handle = NoHandle
    /\ out = <<>>
    /\ panicked = FALSE
    /\ decl = NoCall
    /\ last = NoCall
    /\ ncalls = 0
    /\ fmt = NotFormatted

Construct(call, res) ==
    /\ ~panicked
    /\ decl = NoCall
    /\ decl' = call
    /\ handle' = res.handle
    /\ out' = res.out
    /\ panicked' = res.panicked
    /\ UNCHANGED <<cfg, last, ncalls, fmt>>

AssignedNone ==
    Construct([op |-> "assigned_none"], assigned_none(cfg, out))

AssignedAny ==
    Construct([op |-> "assigned_any"], assigned_any(cfg, out))

AssignedOneOf ==
    \E values \in ListsUpTo(MaxVals) :
        Construct([op |-> "assigned_one_of", values |-> values],
                  assigned_one_of(cfg, values, out))

AssignedNoneOrOneOf ==
    \E values \in ListsUpTo(MaxVals) :
        Construct([op |-> "assigned_none_or_one_of", values |-> values],
                  assigned_none_or_one_of(cfg, values, out))

Call(call, res) ==
    /\ ~panicked
    /\ handle # NoHandle
    /\ ncalls < MaxCalls
    /\ out' = res.out
    /\ panicked' = res.panicked
    /\ last' = call
    /\ ncalls' = ncalls + 1
    /\ UNCHANGED <<cfg, handle, decl, fmt>>

Set ==
    \E value \in OptStrs :
        Call([op |-> "set", value |-> value, invoked |-> 0],
             set(handle, value, out))

SetFromEnv ==
    \E r \in VarResults :
        Call([op |-> "set_from_env", var |-> r, invoked |-> 0],
             set_from_env(handle, r, out))

SetFromEnvOrElse ==
    \E r \in VarResults, d \in OptStrs :
        LET res == set_from_env_or_else(handle, r, d, out)
        IN  Call([op |-> "set_from_env_or_else", var |-> r,
                  invoked |-> res.invoked,
                  default |-> IF res.invoked > 0 THEN d ELSE None],
                 res)

Next ==
    \/ AssignedNone
    \/ AssignedAny
    \/ AssignedOneOf
    \/ AssignedNoneOrOneOf
    \/ Set
    \/ SetFromEnv
    \/ SetFromEnvOrElse

Spec == Init /\ [][Next]_vars

(***************************************************************************)
(* The value-set formatter on its own: every list of at most MaxFmtVals    *)
(* values is formatted.                                                    *)
(***************************************************************************)
InitFmt ==
    /\ cfg = Cfg_new("k")
    /\ handle = NoHandle
    /\ out = <<>>
    /\ panicked = FALSE
    /\ decl = NoCall
    /\ last = NoCall
    /\ ncalls = 0
    /\ fmt \in {[done |-> FALSE, values |-> v] : v \in ListsUpTo(MaxFmtVals)}

Format ==
    /\ ~fmt.done
    /\ fmt' = [done |-> TRUE, values |-> fmt.values,
               capacity |-> initial_capcity(fmt.values),
               value_string |-> list_to_value_str(fmt.values)]
    /\ UNCHANGED <<cfg, handle, out, panicked, decl, last, ncalls>>

NextFmt == Format

SpecFmt == InitFmt /\ [][NextFmt]_vars

(***************************************************************************)
(* Properties.  The expected directive lines are written out here from the *)
(* line formats, independently of the operators above.                     *)
(***************************************************************************)
AssignLine(k, value) ==
    IF value.some THEN "cargo::rustc-cfg=" \o k \o "=\"" \o value.v \o "\""
    ELSE "cargo::rustc-cfg=" \o k

\* A step that is a call of `op` on the handle.
CallOf(op) == ncalls' = ncalls + 1 /\ last'.op = op

\* The outcome of a step equals the outcome `res` of a call of set.
SameAsSet(res) == out' = res.out /\ panicked' = res.panicked

Unset(r) == r = Err("NotPresent")

NotUnicode(r) == r = Err("NotUnicode")

\* C1: set(value) appends exactly one line, `cargo::rustc-cfg=<key>` for an
\* absent value and `cargo::rustc-cfg=<key>="<value>"` for a present one, when
\* is_assignable(value) holds; otherwise it panics and leaves the output as it
\* was.
C1_SetEmitsOneLineOrPanics ==
    [][CallOf("set") =>
        IF is_assignable(handle, last'.value)
        THEN ~panicked' /\ out' = Append(out, AssignLine(handle.key, last'.value))
        ELSE panicked' /\ out' = out]_vars

C1_Witness ==
    /\ last.op = "set"
    /\ last.value.some
    /\ panicked
    /\ handle.rule = "one_of"
    /\ Len(out) = 2

\* C2: the handle of each mode constructor accepts a candidate exactly by its
\* rule: none iff absent; any iff present; one-of(S) iff present and equal to
\* an entry of S; none-or-one-of(S) iff absent, or present and equal to an
\* entry of S.
C2_AcceptanceRules ==
    handle # NoHandle =>
        \A v \in OptStrs :
            LET absent == v = None
                member == \E i \in 1..Len(decl.values) :
                              v = Some(decl.values[i])
            IN  is_assignable(handle, v) <=>
                    CASE decl.op = "assigned_none" -> absent
                      [] decl.op = "assigned_any" -> ~absent
                      [] decl.op = "assigned_one_of" -> ~absent /\ member
                      [] decl.op = "assigned_none_or_one_of" -> absent \/ member

C2_Witness ==
    /\ decl.op = "assigned_one_of"
    /\ handle # NoHandle
    /\ Len(decl.values) = 2
    /\ decl.values[1] # decl.values[2]

\* C3: assigned_one_of and assigned_none_or_one_of called with an empty list
\* panic, write no declaration line and return no handle.
C3_EmptyListPanics ==
    (decl.op \in {"assigned_one_of", "assigned_none_or_one_of"} /\ decl.values = <<>>)
        => panicked /\ out = <<>> /\ handle = NoHandle

C3_Witness ==
    decl.op = "assigned_one_of" /\ decl.values = <<>> /\ panicked

\* C4: a mode constructor that succeeds appends exactly one line,
\* `cargo::rustc-check-cfg=cfg(<key>, values(<space>))`, with <space> being
\* none(), any(), the formatted value-set, or `none(), ` and the formatted
\* value-set; <key> is the declaration's key and so is the handle's key().
DeclSpace(call) ==
    CASE call.op = "assigned_none" -> "none()"
      [] call.op = "assigned_any" -> "any()"
      [] call.op = "assigned_one_of" -> list_to_value_str(call.values)
      [] call.op = "assigned_none_or_one_of" ->
            "none(), " \o list_to_value_str(call.values)

DeclLine(k, call) ==
    "cargo::rustc-check-cfg=cfg(" \o k \o ", values(" \o DeclSpace(call) \o "))"

C4_DeclarationLine ==
    [][(decl' # decl /\ ~panicked') =>
        /\ out' = Append(out, DeclLine(cfg.key, decl'))
        /\ key(handle') = cfg.key]_vars

C4_Witness ==
    /\ decl.op = "assigned_none_or_one_of"
    /\ handle # NoHandle
    /\ Len(decl.values) = 2
    /\ ncalls = 0
    /\ Len(out) = 1

\* C5: set_from_env(K) has the outcome of set(None) when K is unset or set
\* to the empty string, and of set(Some(v)) when K is set to a non-empty v.
C5_SetFromEnvAsSet ==
    [][(CallOf("set_from_env") /\ ~NotUnicode(last'.var)) =>
        LET r == last'.var
        IN  IF Unset(r) THEN SameAsSet(set(handle, None, out))
            ELSE IF r.v = "" THEN SameAsSet(set(handle, None, out))
            ELSE SameAsSet(set(handle, Some(r.v), out))]_vars

C5_Witness ==
    /\ last.op = "set_from_env"
    /\ last.var = Ok("")
    /\ ~panicked
    /\ handle.rule = "none"

\* C6: set_from_env_or_else(K, default) invokes the producer at most once:
\* exactly once when K is unset or empty, and the call then has the outcome
\* of set(the producer's result); never when K holds a non-empty v, and the
\* call then has the outcome of set(Some(v)).
C6_DefaultInvokedLazily ==
    [][(CallOf("set_from_env_or_else") /\ ~NotUnicode(last'.var)) =>
        LET r == last'.var
        IN  /\ last'.invoked <= 1
            /\ IF Unset(r) \/ r.v = ""
               THEN /\ last'.invoked = 1
                    /\ SameAsSet(set(handle, last'.default, out))
               ELSE /\ last'.invoked = 0
                    /\ SameAsSet(set(handle, Some(r.v), out))]_vars

C6_Witness ==
    /\ last.op = "set_from_env_or_else"
    /\ last.invoked = 1
    /\ last.default.some
    /\ Unset(last.var)
    /\ ~panicked

\* C7: for a non-empty list, list_to_value_str returns every value wrapped in
\* double quotes, in input order, joined by `, `, with no leading or trailing
\* separator.
Quoted(v) == "\"" \o v \o "\""

RECURSIVE Joined(_)
Joined(values) ==
    IF Len(values) = 1 THEN Quoted(values[1])
    ELSE Quoted(Head(values)) \o ", " \o Joined(Tail(values))

C7_QuotedAndJoined ==
    (fmt.done /\ fmt.values # <<>>) =>
        /\ fmt.value_string = Joined(fmt.values)
        /\ fmt.values = <<"a">> => fmt.value_string = "\"a\""
        /\ fmt.values = <<"a", "b">> => fmt.value_string = "\"a\", \"b\""

C7_Witness ==
    /\ fmt.done
    /\ fmt.values = <<"a", "", "ab">>
    /\ fmt.value_string = "\"a\", \"\", \"ab\""

\* C8: the capacity list_to_value_str requests before its loop equals the
\* length of the string it produces.
C8_ExactCapacity ==
    fmt.done => fmt.capacity = Len(fmt.value_string)

\* C9: when reading the variable fails for another reason than its absence,
\* set_from_env and set_from_env_or_else panic, print nothing, and the default
\* producer is not invoked.
C9_ReadErrorPanics ==
    [][((CallOf("set_from_env") \/ CallOf("set_from_env_or_else"))
            /\ NotUnicode(last'.var)) =>
        panicked' /\ out' = out /\ last'.invoked = 0]_vars

C9_Witness ==
    /\ last.op = "set_from_env"
    /\ NotUnicode(last.var)
    /\ panicked
    /\ handle.rule = "none"
    /\ Len(out) = 1

\* C10: a handle is not single-use.  Once created it keeps its key and rule,
\* the number of assignments made through it never decreases, every call is
\* accepted or rejected by the handle's rule and that call's candidate alone,
\* and the output is the declaration line followed by one assignment line per
\* successful call, in call order.
Candidate(call) ==
    CASE call.op = "set" -> call.value
      [] call.op = "set_from_env" ->
            IF Unset(call.var) \/ call.var.v = "" THEN None ELSE Some(call.var.v)
      [] call.op = "set_from_env_or_else" ->
            IF Unset(call.var) \/ call.var.v = "" THEN call.default
            ELSE Some(call.var.v)

ReadFails(call) == call.op # "set" /\ NotUnicode(call.var)

Accepted(h, call) == ~ReadFails(call) /\ is_assignable(h, Candidate(call))

Assignments == IF panicked THEN ncalls - 1 ELSE ncalls

C10_HandleReusable ==
    /\ [](handle # NoHandle =>
            /\ Len(out) = 1 + Assignments
            /\ out[1] = DeclLine(handle.key, decl))
    /\ [][handle # NoHandle =>
            /\ handle' = handle
            /\ Assignments' >= Assignments
            /\ ncalls' = ncalls + 1 =>
                /\ panicked' <=> ~Accepted(handle, last')
                /\ out' = IF Accepted(handle, last')
                          THEN Append(out, AssignLine(handle.key, Candidate(last')))
                          ELSE out]_vars

C10_Witness ==
    /\ ncalls = 2
    /\ ~panicked
    /\ Len(out) = 3
    /\ out[2] = out[3]
    /\ handle.rule = "one_of"

====
